---- MODULE Spec2Model ----
(***************************************************************************)
(* A model of three parts of arti:                                         *)
(*   - tor-proto/src/circuit/sendme.rs : SendWindow and RecvWindow         *)
(*   - tor-chanmgr/src/mgr/map.rs      : ChannelMap                        *)
(* Each part has its own specification (SpecSW, SpecPeer, SpecMap) over    *)
(* its own variables; the variables of the other parts stay as Init left   *)
(* them.                                                                   *)
(***************************************************************************)
EXTENDS Integers, Sequences, FiniteSets, TLC

VARIABLES
    \* ---- SendWindowInner (sendme.rs:59-71) and the task calling take ----
    window,     \* SendWindowInner::window : u16
    tags,       \* SendWindowInner::tags : VecDeque<T>
    unblock,    \* SendWindowInner::unblock : Option<oneshot::Sender<()>> (TRUE = Some)
    rx,         \* the oneshot::Receiver held by the suspended take
    pc,         \* where the writer task is inside take
    cur_tag,    \* the `tag` argument of the take call in progress
    initial,    \* the argument of SendWindow::new
    ntake,      \* number of take calls made so far
    bad_put,    \* TRUE once some put carried a tag that was not the expected one
    last,       \* the last call that ran, its tag argument and its return value
    \* ---- the far end of the circuit (an honest peer) ----
    wire,       \* cells sent and not yet received by the peer (their tags)
    rwindow,    \* RecvWindow::window of the peer
    acks,       \* SENDMEs sent by the peer and not yet handled (their tags)
    unacked,    \* tags of the boundary cells sent and not yet acknowledged
    \* ---- ChannelMap: Inner (map.rs:32-53) and its callers ----
    channels,        \* Inner::channels : HashMap<C::Ident, ChannelState<C>>
    channels_params, \* Inner::channels_params (its padding parameters)
    config,          \* Inner::config (its padding level)
    dormancy,        \* Inner::dormancy
    cs,              \* the change_state call that holds the lock, if any
    leaked,          \* TRUE once a caller was handed a Poisoned state
    mlast,           \* the last map operation that returned, and its result
    \* ---- the channel manager's get_or_launch and its callers ----
    gl,              \* per caller: where it is in get_or_launch, and its result
    dials,           \* the dials started so far: identity and outcome
    \* ---- arti-hyper: one call of ArtiHttpConnector ----
    http,            \* the future returned by call: its position, inputs, effects
    \* ---- tor-netdoc: a NetDocReader over microdescriptors ----
    md,              \* the reader's string and position, and the last parse result
    \* ---- tor-proto: a RecvWindow driven directly ----
    rw               \* its window, the SENDMEs owed, and the last call's result

swvars == <<window, tags, unblock, rx, pc, cur_tag, initial, ntake, bad_put, last>>
peervars == <<wire, rwindow, acks, unacked>>
mapvars == <<channels, channels_params, config, dormancy, cs, leaked, mlast>>
mgrvars == <<gl, dials>>
\* the variables outside the send window, the peer and the map
restvars == <<mgrvars, http, md, rw>>

----------------------------------------------------------------------------
(* WindowParams.  SendWindow<P, T> is generic in P; the model instantiates *)
(* it with a small P of the same shape as CircParams (1000 = 10 * 100) and *)
(* StreamParams (500 = 10 * 50): the maximum is a multiple of the          *)
(* increment.                                                              *)
IncrementBound == 3
IncrementsPerWindow == 3
\* how many take calls beyond get_maximum a behaviour may make
ExtraTakes == 2

get_increment == IncrementBound
get_maximum == IncrementsPerWindow * get_increment

\* u16::MAX: `window` is a u16
U16_MAX == 65535

MaxTakes == get_maximum + ExtraTakes

\* T = CircTag; NoTag stands for the `None` of put's Option<T>
Tags == {1, 2}
NoTag == 0
\* Option<u16>::None as returned by put
None == -1
\* values of last.ret for a take that did not return
Parked == -2
Panicked == -3

\* SendWindow::new(window): any u16.  (window + increment - 1 wraps in a
\* release build for windows above U16_MAX - increment + 1; the capacity is
\* only a hint to VecDeque.)
InitWindows == {0, get_increment, get_maximum, U16_MAX}

\* the condition under which take records the tag (and RecvWindow::take
\* asks for a SENDME)
IsBoundary(oldval) == oldval % get_increment = 0 /\ oldval # get_maximum

\* u16::checked_add
checked_add(a, b) == IF a + b > U16_MAX THEN None ELSE a + b

----------------------------------------------------------------------------
(* SendWindow::take, the block under the lock (sendme.rs:136-156).         *)
(* `op` names the caller: "take" for the first pass of the loop, "retry"   *)
(* for a pass after the receiver was woken.                                *)
TakeLocked(op, tag) ==
    LET oldval == window
        \* sendme.rs:139-144
        pushed == IF IsBoundary(oldval) THEN Append(tags, tag) ELSE tags
    IN  IF oldval >= 1
        THEN \* sendme.rs:145-148: checked_sub(1) succeeded
             /\ tags' = pushed
             /\ window' = oldval - 1
             /\ pc' = "idle"
             /\ last' = [op |-> op, tag |-> tag, ret |-> oldval - 1, sent |-> "none"]
             /\ UNCHANGED <<unblock, rx>>
        ELSE \* sendme.rs:150-155: window is zero
             /\ tags' = pushed
             /\ unblock' = TRUE      \* w.unblock.replace(send)
             /\ IF unblock
                THEN \* assert!(old.is_none()) fails: the task panics, the
                     \* guard and the new receiver are dropped
                     /\ pc' = "panicked"
                     /\ rx' = "none"
                     /\ last' = [op |-> op, tag |-> tag, ret |-> Panicked, sent |-> "none"]
                ELSE /\ pc' = "released"
                     /\ rx' = "pending"
                     /\ last' = [op |-> op, tag |-> tag, ret |-> Parked, sent |-> "none"]
             /\ UNCHANGED window

\* a call of take(tag) by the writer task: first pass of the loop
Take(tag) ==
    /\ pc = "idle"
    /\ ntake < MaxTakes
    /\ ntake' = ntake + 1
    /\ cur_tag' = tag
    /\ TakeLocked("take", tag)
    /\ UNCHANGED <<initial, bad_put>>

\* sendme.rs:162, first poll of wait_on with nothing sent yet
Poll ==
    /\ pc = "released"
    /\ rx = "pending"
    /\ pc' = "awaiting"
    /\ UNCHANGED <<window, tags, unblock, rx, cur_tag, initial, ntake, bad_put, last>>

\* sendme.rs:162, wait_on.await yields Ok(()): back to the top of the loop
Wake ==
    /\ pc \in {"released", "awaiting"}
    /\ rx = "ready"
    /\ pc' = "woken"
    /\ rx' = "none"
    /\ UNCHANGED <<window, tags, unblock, cur_tag, initial, ntake, bad_put, last>>

\* sendme.rs:135-137, the next pass of the loop takes the lock again
Retry ==
    /\ pc = "woken"
    /\ TakeLocked("retry", cur_tag)
    /\ UNCHANGED <<cur_tag, initial, ntake, bad_put>>

\* the future returned by take is dropped while suspended: the receiver is
\* dropped with it, the sender stays in `unblock`
Cancel ==
    /\ pc \in {"released", "awaiting", "woken"}
    /\ pc' = "idle"
    /\ rx' = "none"
    /\ last' = [op |-> "cancel", tag |-> cur_tag, ret |-> None, sent |-> "none"]
    /\ UNCHANGED <<window, tags, unblock, cur_tag, initial, ntake, bad_put>>

----------------------------------------------------------------------------
(* SendWindow::put (sendme.rs:176-197); tag = NoTag is put(None).          *)

\* the front of the FIFO as pop_front sees it; NoTag when it is empty
Front == IF tags = <<>> THEN NoTag ELSE Head(tags)

TagAcceptedAny(front, tag) == front # NoTag

TagAcceptedUntagged(front, tag) == tag = NoTag \/ tag = front

TagAcceptedTaggedOnly(front, tag) == front # NoTag /\ tag = front

\* sendme.rs:179-185, the match on (w.tags.pop_front(), tag)
TagAccepted(front, tag) == front # NoTag /\ (tag = NoTag \/ tag = front)

\* sendme.rs:190-193: what send.send(()) gives
SendOutcome == IF ~unblock THEN "none" ELSE IF rx = "pending" THEN "ok" ELSE "err"

PutWakeLost(r) == r

\* the receiver after sendme.rs:190-194
PutWake(r) == IF SendOutcome = "ok" THEN "ready" ELSE r

PutResultChecked(v, sent) == IF sent = "err" THEN None ELSE v

\* sendme.rs:193-196: the outcome of the send is ignored, put returns Some(v)
PutResult(v, sent) == v

PutTakesSenderFirst(tag) ==
    LET v == IF TagAccepted(Front, tag)
             THEN checked_add(window, get_increment)
             ELSE None
    IN  /\ tags' = (IF tags = <<>> THEN tags ELSE Tail(tags))
        /\ bad_put' = (bad_put \/ ~TagAccepted(Front, tag))
        /\ unblock' = FALSE
        /\ rx' = PutWake(rx)
        /\ window' = (IF v = None THEN window ELSE v)
        /\ last' = [op |-> "put", tag |-> tag,
                    ret |-> IF v = None THEN None ELSE PutResult(v, SendOutcome),
                    sent |-> SendOutcome]
        /\ UNCHANGED <<pc, cur_tag, initial, ntake>>

Put(tag) ==
    LET v == IF TagAccepted(Front, tag)
             THEN checked_add(window, get_increment)     \* sendme.rs:187
             ELSE None
    IN  /\ tags' = (IF tags = <<>> THEN tags ELSE Tail(tags))   \* pop_front
        /\ bad_put' = (bad_put \/ ~TagAccepted(Front, tag))
        /\ IF v = None
           THEN /\ last' = [op |-> "put", tag |-> tag, ret |-> None, sent |-> "none"]
                /\ UNCHANGED <<window, unblock, rx>>
           ELSE /\ window' = v                                  \* sendme.rs:188
                /\ unblock' = FALSE                             \* w.unblock.take()
                /\ rx' = PutWake(rx)
                /\ last' = [op |-> "put", tag |-> tag,
                            ret |-> PutResult(v, SendOutcome), sent |-> SendOutcome]
        /\ UNCHANGED <<pc, cur_tag, initial, ntake>>

----------------------------------------------------------------------------
(* RecvWindow (sendme.rs:201-237), as the far end of the circuit runs it.  *)

RecvTakeAnyMultiple(w) ==
    IF w >= 1
    THEN [window |-> w - 1, ret |-> IF w % get_increment = 0 THEN 1 ELSE 0]
    ELSE [window |-> w, ret |-> None]

RecvTakeWraps(w) ==
    [window |-> (w + U16_MAX) % (U16_MAX + 1), ret |-> IF IsBoundary(w) THEN 1 ELSE 0]

\* RecvWindow::take: the new window and the result; None = -1, false = 0,
\* true = 1
RecvTake(w) ==
    IF w >= 1
    THEN [window |-> w - 1, ret |-> IF IsBoundary(w) THEN 1 ELSE 0]
    ELSE [window |-> w, ret |-> None]

\* RecvWindow::put: checked_add(increment).unwrap(), None = the unwrap panics
RecvPut(w) == checked_add(w, get_increment)

\* how many put calls with no SENDME owed a behaviour may make
MaxStrayPuts == 1

\* RecvWindow::new(window) (sendme.rs:208-213): any u16
RecvInitWindows == (0..get_maximum) \cup {U16_MAX}

\* a RecvWindow and its caller: `owed` counts the takes that returned
\* Some(true) and were not yet followed by their put, `stray` the puts made
\* with none owed, `ntake` the take calls
RwNew(w) ==
    [initial |-> w, window |-> w, owed |-> 0, stray |-> 0, ntake |-> 0,
     op |-> "new", ret |-> None, panicked |-> FALSE]

\* no RecvWindow yet
RwNone == [RwNew(0) EXCEPT !.op = "none"]

InitRw == rw = RwNone

\* RecvWindow::new(window) (sendme.rs:208-213)
RwConstruct(w) ==
    /\ rw.op = "none"
    /\ rw' = RwNew(w)
    /\ UNCHANGED <<mgrvars, http, md>>

\* RecvWindow::take (sendme.rs:220-231)
RwTake ==
    /\ rw.op # "none" /\ ~rw.panicked
    /\ rw.ntake < MaxTakes
    /\ LET r == RecvTake(rw.window)
       IN  rw' = [rw EXCEPT !.window = r.window, !.op = "take", !.ret = r.ret,
                            !.ntake = @ + 1,
                            !.owed = IF r.ret = 1 THEN @ + 1 ELSE @]
    /\ UNCHANGED <<mgrvars, http, md>>

\* RecvWindow::put (sendme.rs:234-236): the unwrap panics on overflow
RwPut ==
    /\ rw.op # "none" /\ ~rw.panicked
    /\ rw.owed > 0 \/ rw.stray < MaxStrayPuts
    /\ LET v == RecvPut(rw.window)
       IN  rw' = [rw EXCEPT !.window = IF v = None THEN @ ELSE v,
                            !.panicked = (v = None),
                            !.op = "put", !.ret = v,
                            !.owed = IF @ > 0 THEN @ - 1 ELSE @,
                            !.stray = IF rw.owed > 0 THEN @ ELSE @ + 1]
    /\ UNCHANGED <<mgrvars, http, md>>

\* the writer task sends a cell: take(tag) with the cell's own tag, and the
\* cell goes out when take returns
SendCell(oldwindow) ==
    IF last'.ret >= 0
    THEN /\ wire' = Append(wire, last'.tag)
         /\ unacked' = (IF IsBoundary(oldwindow)
                        THEN Append(unacked, last'.tag) ELSE unacked)
    ELSE UNCHANGED <<wire, unacked>>

PeerTake ==
    /\ Take(ntake + 1)
    /\ SendCell(window)
    /\ UNCHANGED <<rwindow, acks>>

PeerRetry ==
    /\ Retry
    /\ SendCell(window)
    /\ UNCHANGED <<rwindow, acks>>

\* the peer receives the next cell: RecvWindow::take, and on Some(true) it
\* sends a SENDME echoing the cell's tag and calls RecvWindow::put
PeerRecv ==
    /\ wire # <<>>
    /\ wire' = Tail(wire)
    /\ LET r == RecvTake(rwindow)
       IN  IF r.ret = 1
           THEN /\ acks' = Append(acks, Head(wire))
                /\ rwindow' = RecvPut(r.window)
           ELSE /\ acks' = acks
                /\ rwindow' = r.window
    /\ UNCHANGED <<swvars, unacked>>

\* the SENDME reaches the sender: put(Some(tag))
DeliverAck ==
    /\ acks # <<>>
    /\ acks' = Tail(acks)
    /\ Put(Head(acks))
    /\ unacked' = (IF unacked = <<>> THEN unacked ELSE Tail(unacked))
    /\ UNCHANGED <<wire, rwindow>>

----------------------------------------------------------------------------
(* ChannelMap (map.rs).                                                    *)

\* C::Ident
Keys == {1, 2}

\* PaddingParameters as <<low_ms, high_ms>>
NoParams == <<-1, -1>>
\* PaddingParameters::all_zeroes, ::default and ::default_reduced
all_zeroes == <<0, 0>>
default_params == <<1500, 9500>>
default_reduced == <<9000, 14000>>

\* Duration::from_secs(180), the default of expire_channels
ExpireDefault == 180
\* Option<Duration>::None of duration_unused
NoDuration == -1

\* ChannelState<C>: `kind` is the variant (Absent: no entry under the key);
\* for Open, `ident` is channel.ident(), `unused` is channel.duration_unused()
\* in seconds, `max_unused` is max_unused_duration, `params` the padding
\* parameters the channel runs with; for Building, `pending` is the
\* Pending<C> handle: the number of the dial it waits for (0: not recorded)
StateOf(k, i, u, m, p) ==
    [kind |-> k, ident |-> i, unused |-> u, max_unused |-> m, params |-> p, pending |-> 0,
     closed |-> FALSE]
Absent == StateOf("Absent", 0, NoDuration, 0, NoParams)
Building == StateOf("Building", 0, NoDuration, 0, NoParams)
Poisoned == StateOf("Poisoned", 0, NoDuration, 0, NoParams)
Open(i, u, m, p) == StateOf("Open", i, u, m, p)
\* an Open state whose channel is closed or gone (test: closed(ident),
\* map.rs:530-542): its reparameterize returns Err
ClosedOpen(i, p) == [Open(i, NoDuration, ExpireDefault, p) EXCEPT !.closed = TRUE]

check_ident_open_ok(state, ident) ==
    IF state.kind = "Poisoned" THEN "Poisoned" ELSE "Ok"

\* ChannelState::check_ident (map.rs:149-163): "Ok" or the internal error
check_ident(state, ident) ==
    CASE state.kind = "Open" -> IF state.ident = ident THEN "Ok" ELSE "Mismatch"
      [] state.kind = "Poisoned" -> "Poisoned"
      [] OTHER -> "Ok"

\* the mutex of ChannelMap::inner is free: no change_state is inside it
LockFree == ~cs.active
Idle ==
    [active |-> FALSE, poisoned |-> FALSE, ident |-> 0, old |-> Absent, newval |-> Absent,
     output |-> 0]
\* the std Mutex after a holder panicked: every later lock() returns Err
PoisonedLock == [Idle EXCEPT !.poisoned = TRUE]
\* what a panic leaves as the result of the call
Panic == StateOf("Panic", 0, NoDuration, 0, NoParams)

\* the record of a call that returned: err = it returned Err (or panicked,
\* val = Panic), val = the state it returned (Absent for Ok(None)), calls =
\* how often it called reparameterize on the channel under each key, out =
\* the second result of change_state's func, netdir = the consensus given to
\* reconfigure_general
Returned(op, ident, err, val) ==
    [op |-> op, ident |-> ident, err |-> err, val |-> val, calls |-> [k \in Keys |-> 0],
     out |-> 0, netdir |-> <<>>]

\* the call returns Err and leaves the map as it is (`?` on lock() of a
\* poisoned mutex, on func's result, on check_ident)
ReturnErr(op, ident) ==
    /\ mlast' = Returned(op, ident, TRUE, Absent)
    /\ UNCHANGED <<channels, channels_params, config, dormancy, cs, leaked>>

GetUnlocked(ident) ==
    /\ mlast' = Returned("get", ident, channels[ident].kind = "Poisoned",
                         IF channels[ident].kind = "Poisoned" THEN Absent
                         ELSE channels[ident])
    /\ UNCHANGED <<channels, channels_params, config, dormancy, cs, leaked>>

\* ChannelMap::get (map.rs:206-213); clone_ref fails on Poisoned
Get(ident) ==
    /\ LockFree
    /\ IF cs.poisoned THEN ReturnErr("get", ident)
       ELSE /\ mlast' = Returned("get", ident, channels[ident].kind = "Poisoned",
                                 IF channels[ident].kind = "Poisoned" THEN Absent
                                 ELSE channels[ident])
            /\ UNCHANGED <<channels, channels_params, config, dormancy, cs, leaked>>

InsertReturnsNone(op, ident, newval) ==
    /\ LockFree
    /\ IF cs.poisoned THEN ReturnErr(op, ident)
       ELSE /\ channels' = [channels EXCEPT ![ident] = newval]
            /\ leaked' = (leaked \/ channels[ident].kind = "Poisoned")
            /\ mlast' = Returned(op, ident, FALSE, Absent)
            /\ UNCHANGED <<channels_params, config, dormancy, cs>>

\* HashMap::insert under the lock, returning the previous value
Insert(op, ident, newval) ==
    /\ LockFree
    /\ IF cs.poisoned THEN ReturnErr(op, ident)
       ELSE /\ channels' = [channels EXCEPT ![ident] = newval]
            /\ leaked' = (leaked \/ channels[ident].kind = "Poisoned")
            /\ mlast' = Returned(op, ident, FALSE, channels[ident])
            /\ UNCHANGED <<channels_params, config, dormancy, cs>>

\* ChannelMap::replace (map.rs:218-226): check_ident runs before the lock
Replace(ident, newval) ==
    /\ IF check_ident(newval, ident) # "Ok"
       THEN ReturnErr("replace", ident)
       ELSE Insert("replace", ident, newval)

ReplaceWithParamsInsertsFirst(ident, res) ==
    /\ LockFree
    /\ IF cs.poisoned \/ res.kind = "Err"
       THEN ReturnErr("replace_with_params", ident)
       ELSE LET newval == IF res.kind = "Open"
                          THEN [res EXCEPT !.params = channels_params] ELSE res
            IN  /\ channels' = [channels EXCEPT ![ident] = newval]
                /\ leaked' = (leaked \/ channels[ident].kind = "Poisoned")
                /\ mlast' = Returned("replace_with_params", ident,
                                     check_ident(newval, ident) # "Ok", channels[ident])
                /\ UNCHANGED <<channels_params, config, dormancy, cs>>

ReplaceWithParamsStale(ident, res) ==
    /\ LockFree
    /\ IF cs.poisoned \/ res.kind = "Err" \/ check_ident(res, ident) # "Ok"
       THEN ReturnErr("replace_with_params", ident)
       ELSE Insert("replace_with_params", ident, res)

\* ChannelMap::replace_with_params (map.rs:235-247).  func gets the current
\* channels_params; `res` is what it makes of them: "Err", or a state (an
\* Open one holds a channel built with the snapshot)
ReplaceWithParams(ident, res) ==
    /\ LockFree
    /\ IF cs.poisoned \/ res.kind = "Err"
       THEN ReturnErr("replace_with_params", ident)
       ELSE LET newval == IF res.kind = "Open"
                          THEN [res EXCEPT !.params = channels_params] ELSE res
            IN  IF check_ident(newval, ident) # "Ok"
                THEN ReturnErr("replace_with_params", ident)
                ELSE Insert("replace_with_params", ident, newval)

\* ChannelMap::remove (map.rs:250-253)
Remove(ident) ==
    /\ LockFree
    /\ IF cs.poisoned THEN ReturnErr("remove", ident)
       ELSE /\ channels' = [channels EXCEPT ![ident] = Absent]
            /\ leaked' = (leaked \/ channels[ident].kind = "Poisoned")
            /\ mlast' = Returned("remove", ident, FALSE, channels[ident])
            /\ UNCHANGED <<channels_params, config, dormancy, cs>>

PlaceholderAlways(old) == Poisoned

\* map.rs:289-293, 306: the entry while func runs: the Poisoned placeholder in
\* an occupied entry, nothing in a vacant one
Placeholder(old) == IF old.kind = "Absent" THEN Absent ELSE Poisoned

\* ChannelMap::change_state (map.rs:281-294, 306-307): take the lock, swap
\* the Poisoned placeholder into an occupied entry and call func on the old
\* state.  newval is what func returns: Absent for None, "Same" to hand back
\* the state it was given
ChangeStateEnter(ident, newval, v) ==
    /\ LockFree
    /\ IF cs.poisoned THEN ReturnErr("change_state", ident)
       ELSE /\ cs' = [active |-> TRUE, poisoned |-> FALSE, ident |-> ident,
                      old |-> channels[ident], output |-> v,
                      newval |-> IF newval.kind = "Same" THEN channels[ident] ELSE newval]
            /\ channels' = [channels EXCEPT ![ident] = Placeholder(channels[ident])]
            /\ leaked' = (leaked \/ channels[ident].kind = "Poisoned")
            /\ UNCHANGED <<channels_params, config, dormancy, mlast>>

ChangeStateStoreLeavesPlaceholder(slot, newval, ident) == slot

ChangeStateStoreUnchecked(slot, newval, ident) ==
    IF newval.kind = "Absent" THEN Absent ELSE newval

ChangeStateStoreDropsNew(slot, newval, ident) ==
    IF newval.kind = "Absent" THEN Absent ELSE slot

\* map.rs:295-303 and 308-311: the entry after func returned newval; `slot`
\* is the entry as it stands (the placeholder, or Absent for a vacant entry)
ChangeStateStore(slot, newval, ident) ==
    IF newval.kind = "Absent"
    THEN Absent                                   \* occupied.remove(), or nothing
    ELSE IF check_ident(newval, ident) # "Ok"
         THEN slot                                \* `?` returns, nothing stored
         ELSE newval

ChangeStateOutputLost(err, output) == 0

\* map.rs:304, 312: Ok(output), unless `?` returned before
ChangeStateOutput(err, output) == IF err THEN 0 ELSE output

\* ChannelMap::change_state (map.rs:295-314): store the result, unlock, return
ChangeStateExit ==
    /\ cs.active
    /\ channels' = [channels EXCEPT ![cs.ident] =
                       ChangeStateStore(channels[cs.ident], cs.newval, cs.ident)]
    /\ LET err == cs.newval.kind # "Absent" /\ check_ident(cs.newval, cs.ident) # "Ok"
       IN  mlast' = [Returned("change_state", cs.ident, err, cs.old)
                        EXCEPT !.out = ChangeStateOutput(err, cs.output)]
    /\ cs' = Idle
    /\ UNCHANGED <<channels_params, config, dormancy, leaked>>

\* func panics inside change_state (map.rs:294, 307): the unwinding drops the
\* old state, leaves the entry as it stands and poisons the mutex
ChangeStatePanic ==
    /\ cs.active
    /\ mlast' = Returned("change_state", cs.ident, TRUE, Panic)
    /\ cs' = PoisonedLock
    /\ UNCHANGED <<channels, channels_params, config, dormancy, leaked>>

ready_to_expire_at_max(state) ==
    /\ state.kind = "Open"
    /\ state.unused # NoDuration
    /\ state.max_unused - state.unused <= 0

\* ChannelState::ready_to_expire (map.rs:168-187), without the update of
\* expire_after: checked_sub fails when unused exceeds max_unused
ready_to_expire(state) ==
    /\ state.kind = "Open"
    /\ state.unused # NoDuration
    /\ state.max_unused - state.unused < 0

MinKeepsFirst(a, b) == a

Min(a, b) == IF a <= b THEN a ELSE b

\* the value of `ret` after retain visited the entries in `ks` (map.rs:174-175)
RECURSIVE expire_after(_, _)
expire_after(ks, ret) ==
    IF ks = {} THEN ret
    ELSE LET k == CHOOSE x \in ks : TRUE
             st == channels[k]
             r == IF st.kind = "Open" /\ st.unused # NoDuration /\ ~ready_to_expire(st)
                  THEN Min(ret, st.max_unused - st.unused) ELSE ret
         IN  expire_after(ks \ {k}, r)

\* ChannelMap::expire_channels (map.rs:394-402); mlast.val.unused carries the
\* Duration returned
\* Duration returned; on a poisoned mutex `expect` panics
ExpireChannels ==
    /\ LockFree
    /\ IF cs.poisoned
       THEN /\ mlast' = Returned("expire_channels", 0, TRUE, Panic)
            /\ UNCHANGED <<channels, channels_params, config, dormancy, cs, leaked>>
       ELSE /\ channels' = [k \in Keys |->
                               IF ready_to_expire(channels[k]) THEN Absent ELSE channels[k]]
            /\ mlast' = Returned("expire_channels", 0, FALSE,
                                 StateOf("Duration", 0, expire_after(Keys, ExpireDefault), 0, NoParams))
            /\ UNCHANGED <<channels_params, config, dormancy, cs, leaked>>

\* PaddingParametersBuilder::build: fields not set take the defaults of
\* PaddingParameters::default
build(low, high) ==
    <<IF low = -1 THEN default_params[1] ELSE low,
      IF high = -1 THEN default_params[2] ELSE high>>

padding_parameters_normal_pair(level, netdir) ==
    IF level = "None" THEN all_zeroes
    ELSE IF netdir = <<>>
         THEN IF level = "Reduced" THEN default_reduced ELSE default_params
         ELSE IF netdir[1][1] > netdir[1][2] THEN build(-1, -1)
              ELSE build(netdir[1][1], netdir[1][2])

padding_parameters_absent_default(level, netdir) ==
    IF level = "None" THEN all_zeroes
    ELSE IF netdir = <<>> THEN default_params
         ELSE LET nf_ito == netdir[IF level = "Reduced" THEN 2 ELSE 1]
              IN  IF nf_ito[1] > nf_ito[2] THEN build(-1, -1)
                  ELSE build(nf_ito[1], nf_ito[2])

padding_parameters_none_as_normal(level, netdir) ==
    IF netdir = <<>>
    THEN IF level = "None" THEN all_zeroes
         ELSE IF level = "Reduced" THEN default_reduced ELSE default_params
    ELSE LET nf_ito == netdir[IF level = "Reduced" THEN 2 ELSE 1]
         IN  IF nf_ito[1] > nf_ito[2] THEN build(-1, -1)
             ELSE build(nf_ito[1], nf_ito[2])

padding_parameters_unchecked(level, netdir) ==
    IF level = "None" THEN all_zeroes
    ELSE IF netdir = <<>>
         THEN IF level = "Reduced" THEN default_reduced ELSE default_params
         ELSE LET nf_ito == netdir[IF level = "Reduced" THEN 2 ELSE 1]
              IN  build(nf_ito[1], nf_ito[2])

\* padding_parameters (map.rs:409-455). level is the PaddingLevel; netdir is
\* "Err" or the nf_ito array of a NetDirExtract
padding_parameters(level, netdir) ==
    IF level = "None" THEN all_zeroes
    ELSE LET reduced == (level = "Reduced")
         IN  IF netdir = <<>>
             THEN IF reduced THEN default_reduced ELSE default_params
             ELSE LET nf_ito == netdir[IF reduced THEN 2 ELSE 1]
                      low == nf_ito[1]
                      high == nf_ito[2]
                  IN  IF low > high THEN build(-1, -1) ELSE build(low, high)

\* ChannelsParams: start_update().padding_parameters(p).finish() is Some
\* exactly when p differs from the current value
finish_is_some(p) == p # channels_params

\* AbstractChannel::reparameterize on the channel of an Open state: a
\* closed channel returns Err and takes no update
reparameterize(state, update) ==
    IF state.closed THEN state ELSE [state EXCEPT !.params = update]

\* the Open channels whose reparameterize returns Err when called
Failing(calls) == {k \in Keys : calls[k] > 0 /\ channels[k].closed}

FanOutErrPropagates(failed) == failed # {}

\* map.rs:384-387: `let _ = channel.reparameterize(..)` drops the result and
\* the function ends with Ok(())
FanOutErr(failed) == FALSE

ReparameterizeCallsAlways(is_some) ==
    [k \in Keys |-> IF channels[k].kind \in {"Open", "Building"} THEN 1 ELSE 0]

\* map.rs:372-386: with no update the function returns before the loop; the
\* loop visits every value once, calls reparameterize on the channel of an
\* Open entry and skips Building and Poisoned ones
ReparameterizeCalls(is_some) ==
    [k \in Keys |-> IF is_some /\ channels[k].kind = "Open" THEN 1 ELSE 0]

\* ChannelMap::reconfigure_general (map.rs:326-388).  new_config and
\* new_dormancy are "NoChange" for None
ReconfigureGeneral(new_config, new_dormancy, netdir) ==
    /\ LockFree
    /\ IF cs.poisoned THEN ReturnErr("reconfigure_general", 0)
       ELSE /\ config' = (IF new_config = "NoChange" THEN config ELSE new_config)
            /\ dormancy' = (IF new_dormancy = "NoChange" THEN dormancy ELSE new_dormancy)
            /\ LET p == padding_parameters(config', netdir)
                   calls == ReparameterizeCalls(finish_is_some(p))
               IN  /\ channels_params' = p
                   /\ channels' = [k \in Keys |->
                                      IF calls[k] > 0
                                      THEN reparameterize(channels[k], p)
                                      ELSE channels[k]]
                   /\ mlast' = [Returned("reconfigure_general", 0,
                                          FanOutErr(Failing(calls)), Absent)
                                   EXCEPT !.calls = calls, !.netdir = netdir]
            /\ UNCHANGED <<cs, leaked>>

----------------------------------------------------------------------------
(* The channel manager's get_or_launch, which drives the map through       *)
(* change_state.  Its code is not part of the sources at hand; it is       *)
(* modelled after the specification's description of it.                   *)

\* the tasks calling get_or_launch
Procs == {1, 2, 3}
\* how many dials a behaviour may start
MaxDials == 2

BuildingWith(h) == [Building EXCEPT !.pending = h]

LookupVerdictNoDedup(old, usable) ==
    IF old.kind = "Open" /\ usable THEN "return" ELSE "launch"

\* what the caller does with the entry it finds: return the open channel,
\* await the pending build, or launch a dial of its own
LookupVerdict(old, usable) ==
    IF old.kind = "Open" /\ usable THEN "return"
    ELSE IF old.kind = "Building" THEN "wait"
    ELSE "launch"

CallerAt(at, ident, handle, result) ==
    [pc |-> at, ident |-> ident, handle |-> handle, result |-> result]

\* get_or_launch(ident), its critical section: look the entry up and, if a
\* dial is needed, install Building with a fresh pending handle.  `usable`
\* is what is_usable() says of an open channel
GetOrLaunchLookup(p, ident, usable) ==
    /\ gl[p].pc = "idle"
    /\ LockFree /\ ~cs.poisoned
    /\ LET old == channels[ident]
           verdict == LookupVerdict(old, usable)
           h == Len(dials) + 1
       IN  /\ verdict = "launch" => Len(dials) < MaxDials
           /\ gl' = [gl EXCEPT ![p] =
                        CASE verdict = "return" -> CallerAt("idle", ident, 0, "open")
                          [] verdict = "wait" -> CallerAt("waiting", ident, old.pending, "none")
                          [] OTHER -> CallerAt("dialing", ident, h, "none")]
           /\ dials' = IF verdict = "launch"
                       THEN Append(dials, [ident |-> ident, outcome |-> "inflight"])
                       ELSE dials
           /\ channels' = [channels EXCEPT ![ident] =
                              ChangeStateStore(Placeholder(old),
                                               IF verdict = "launch"
                                               THEN BuildingWith(h) ELSE old, ident)]
           /\ mlast' = Returned("change_state", ident, FALSE, old)
    /\ UNCHANGED <<channels_params, config, dormancy, cs, leaked, http, md, rw>>

\* the dial of caller p ends: under the lock the entry is promoted to Open or
\* removed, and the pending handle is resolved
GetOrLaunchDialDone(p, ok) ==
    /\ gl[p].pc = "dialing"
    /\ LockFree /\ ~cs.poisoned
    /\ LET ident == gl[p].ident
           outcome == IF ok THEN "open" ELSE "failed"
           newval == IF ok THEN Open(ident, NoDuration, ExpireDefault, channels_params)
                     ELSE Absent
       IN  /\ dials' = [dials EXCEPT ![gl[p].handle].outcome = outcome]
           /\ gl' = [gl EXCEPT ![p] = CallerAt("idle", ident, gl[p].handle, outcome)]
           /\ channels' = [channels EXCEPT ![ident] =
                              ChangeStateStore(Placeholder(channels[ident]), newval, ident)]
           /\ mlast' = Returned("change_state", ident, FALSE, channels[ident])
    /\ UNCHANGED <<channels_params, config, dormancy, cs, leaked, http, md, rw>>

\* a caller that awaited the pending handle gets what the dial gave
GetOrLaunchWaitDone(p) ==
    /\ gl[p].pc = "waiting"
    /\ gl[p].handle \in 1..Len(dials)
    /\ dials[gl[p].handle].outcome # "inflight"
    /\ gl' = [gl EXCEPT ![p] =
                 CallerAt("idle", gl[p].ident, gl[p].handle, dials[gl[p].handle].outcome)]
    /\ UNCHANGED <<dials, mapvars, http, md, rw>>

----------------------------------------------------------------------------
(* arti-hyper (lib.rs): uri_to_host_port_tls and ArtiHttpConnector::call.  *)

\* Uri: scheme() ("none": no scheme), host() ("none": no host), port()
\* (NoPort: no explicit port)
NoPort == -1
Uris ==
    [scheme : {"http", "https", "ftp", "none"},
     host : {"none", "example.com", "example.onion"},
     port : {NoPort, 80, 443, 8080}]

Parsed(err, host, port, use_tls) ==
    [err |-> err, host |-> host, port |-> port, use_tls |-> use_tls]

uri_to_host_port_tls_host_first(uri) ==
    IF uri.host = "none" THEN Parsed("MissingHostname", "none", NoPort, "Bare")
    ELSE IF uri.scheme \notin {"http", "https"}
    THEN Parsed("UnsupportedUriScheme", "none", NoPort, "Bare")
    ELSE Parsed("none", uri.host,
                IF uri.port # NoPort THEN uri.port
                ELSE IF uri.scheme = "https" THEN 443 ELSE 80,
                IF uri.scheme = "https" THEN "Tls" ELSE "Bare")

\* uri_to_host_port_tls (lib.rs:202-224); err = "none" for Ok
uri_to_host_port_tls(uri) ==
    LET use_tls == IF uri.scheme = "http" THEN "Bare"
                   ELSE IF uri.scheme = "https" THEN "Tls"
                   ELSE "Unsupported"
    IN  IF use_tls = "Unsupported"
        THEN Parsed("UnsupportedUriScheme", "none", NoPort, "Bare")
        ELSE IF uri.host = "none"
        THEN Parsed("MissingHostname", "none", NoPort, "Bare")
        ELSE Parsed("none", uri.host,
                    IF uri.port # NoPort THEN uri.port
                    ELSE IF use_tls = "Tls" THEN 443 ELSE 80,
                    use_tls)

\* the future of `call` before it is created
HttpIdle ==
    [pc |-> "idle", uri |-> [scheme |-> "none", host |-> "none", port |-> NoPort],
     parsed |-> Parsed("none", "none", NoPort, "Bare"),
     events |-> <<>>, connect |-> "none", handshake |-> "none", result |-> "none"]

InitHttp == http = HttpIdle

WrapsInTlsAlways(use_tls) == TRUE

\* lib.rs:251-260, the match on use_tls
WrapsInTls(use_tls) == use_tls = "Tls"

\* call(req), up to the first await (lib.rs:236-249): the URI is taken apart,
\* the address is made (addr_ok: into_tor_addr succeeded) and the onion
\* connect is started
HttpCall(uri, addr_ok) ==
    /\ http.pc = "idle"
    /\ LET parsed == uri_to_host_port_tls(uri)
           started == [HttpIdle EXCEPT !.uri = uri, !.parsed = parsed]
       IN  http' =
              IF parsed.err # "none"
              THEN [started EXCEPT !.pc = "done", !.result = parsed.err]
              ELSE IF ~addr_ok
              THEN [started EXCEPT !.pc = "done", !.result = "Arti"]
              ELSE [started EXCEPT
                       !.pc = "connecting",
                       !.events = <<[ev |-> "connect", host |-> parsed.host,
                                     port |-> parsed.port]>>]
    /\ UNCHANGED <<mgrvars, md, rw>>

\* client.connect(addr).await ends (lib.rs:249-260): on Ok the stream is
\* returned bare or handed to the TLS connector
HttpConnectDone(ok) ==
    /\ http.pc = "connecting"
    /\ http' =
          IF ~ok
          THEN [http EXCEPT !.pc = "done", !.connect = "failed", !.result = "Arti"]
          ELSE IF WrapsInTls(http.parsed.use_tls)
          THEN [http EXCEPT
                   !.pc = "handshaking", !.connect = "ok",
                   !.events = Append(@, [ev |-> "tls", host |-> http.parsed.host,
                                         port |-> http.parsed.port])]
          ELSE [http EXCEPT !.pc = "done", !.connect = "ok", !.result = "Http"]
    /\ UNCHANGED <<mgrvars, md, rw>>

\* connect_impl_tls_stream(&host, ds).await ends (lib.rs:253-257)
HttpHandshakeDone(ok) ==
    /\ http.pc = "handshaking"
    /\ http' = IF ok
               THEN [http EXCEPT !.pc = "done", !.handshake = "ok", !.result = "Https"]
               ELSE [http EXCEPT !.pc = "done", !.handshake = "failed", !.result = "TLS"]
    /\ UNCHANGED <<mgrvars, md, rw>>

\* the caller has its result; the connector is ready for the next call
HttpNext ==
    /\ http.pc = "done"
    /\ http' = HttpIdle
    /\ UNCHANGED <<mgrvars, md, rw>>

----------------------------------------------------------------------------
(* tor-netdoc (microdesc.rs): Microdesc::parse_from_reader.  A document is *)
(* a sequence of items, each stood for by its keyword (an `id` item by its  *)
(* whole line); the offset of an item is its index.                        *)

\* MicrodescKW (microdesc.rs:50-61), the keywords used here
Keywords == {"last-listed", "onion-key", "ntor-onion-key", "p"}
\* the longest document
MaxItems == 4
\* `id <type> <value>` items: an ed25519 identity, an identity of another
\* type, and two malformed ones that carry the word ed25519 as their value
IdItems == {"id ed25519 KEYA", "id rsa1024 KEYB", "id KEYA ed25519", "id ed25519 ed25519"}
Items == Keywords \cup IdItems
Docs == UNION {[1..n -> Items] : n \in 0..MaxItems}

\* the arguments of an item; those of the items other than id are well
\* formed and left out
Args(item) ==
    CASE item = "id ed25519 KEYA" -> <<"ed25519", "KEYA">>
      [] item = "id rsa1024 KEYB" -> <<"rsa1024", "KEYB">>
      [] item = "id KEYA ed25519" -> <<"KEYA", "ed25519">>
      [] item = "id ed25519 ed25519" -> <<"ed25519", "ed25519">>
      [] OTHER -> <<>>

\* Option<&str>::None of get_arg, Option<ed25519::PublicKey>::None
NoArg == ""
NoKey == ""

\* Item::get_arg(idx), as used for `ntor-onion-key <base64>` with
\* parse_arg(0) (microdesc.rs:160-163): indices count from 0
get_arg(item, idx) ==
    IF idx + 1 <= Len(Args(item)) THEN Args(item)[idx + 1] ELSE NoArg

\* the arguments that decode as base64 to an ed25519 key
Ed25519Keys == {"KEYA"}

is_annotation(kwd) == kwd = "last-listed"

\* SHA-256 of a slice: equal digests only for equal slices
Sha256(slice) == <<"sha256", slice>>

\* how many items of doc[from..to-1] carry the keyword
CountKw(doc, from, to, kwd) == Cardinality({i \in from..(to - 1) : doc[i] = kwd})

\* where reader.pause_at of Microdesc::parse_from_reader stops
\* (microdesc.rs:124-136): at the next annotation or at the second onion-key
\* met since `from`; past the end if there is none
PauseAt(doc, from) ==
    LET stops == {i \in from..Len(doc) :
                     \/ is_annotation(doc[i])
                     \/ doc[i] = "onion-key" /\ CountKw(doc, from, i, "onion-key") >= 1}
    IN  IF stops = {} THEN Len(doc) + 1
        ELSE CHOOSE i \in stops : \A j \in stops : i <= j

\* where reader.pause_at of MicrodescAnnotation::parse_from_reader stops
\* (microdesc.rs:94-97): at the first item that is no annotation
PauseAtBody(doc, from) ==
    LET stops == {i \in from..Len(doc) : ~is_annotation(doc[i])}
    IN  IF stops = {} THEN Len(doc) + 1
        ELSE CHOOSE i \in stops : \A j \in stops : i <= j

\* MICRODESC_RULES.parse on doc[from..to-1] (microdesc.rs:72-84): onion-key
\* and ntor-onion-key required, neither they nor p may repeat
BodyRulesOk(doc, from, to) ==
    /\ CountKw(doc, from, to, "onion-key") = 1
    /\ CountKw(doc, from, to, "ntor-onion-key") = 1
    /\ CountKw(doc, from, to, "p") <= 1

\* body.get_slice(ID) (microdesc.rs:183-184): the places of the id items in
\* doc[from..to-1]
IdSlice(doc, from, to) == {i \in from..(to - 1) : doc[i] \in IdItems}

\* the first place of a set of places, 0 if there is none
First(places) ==
    IF places = {} THEN 0 ELSE CHOOSE i \in places : \A j \in places : i <= j

\* the id item holding ed25519 as its type and the key as its value
IdTokByType(doc, from, to) ==
    First({i \in IdSlice(doc, from, to) : get_arg(doc[i], 0) = "ed25519"})

\* microdesc.rs:183-186: find(|item| item.get_arg(1) == Some("ed25519"))
IdTok(doc, from, to) ==
    First({i \in IdSlice(doc, from, to) : get_arg(doc[i], 1) = "ed25519"})

\* microdesc.rs:187-190: None, or tok.parse_arg::<Ed25519Public>(0)?; "Err"
\* when the argument does not decode
Ed25519Id(doc, from, to) ==
    LET tok == IdTok(doc, from, to)
    IN  IF tok = 0 THEN NoKey
        ELSE IF get_arg(doc[tok], 0) \in Ed25519Keys THEN get_arg(doc[tok], 0)
        ELSE "Err"

HashedToPause(doc, start_pos, stop) == SubSeq(doc, start_pos, stop - 1)

\* microdesc.rs:194-196: &s[start_pos..], s being reader.str()
HashedSlice(doc, start_pos, stop) == SubSeq(doc, start_pos, Len(doc))

MdIdle ==
    [pc |-> "idle", doc |-> <<>>, pos |-> 1, op |-> "none", err |-> "none",
     start_pos |-> 0, stop |-> 0, sha256 |-> Sha256(<<>>), ed25519_id |-> NoKey]

InitMd == md = MdIdle

\* NetDocReader::new(s) (microdesc.rs:113)
MdNew(doc) ==
    /\ md.pc = "idle"
    /\ md' = [MdIdle EXCEPT !.pc = "reading", !.doc = doc]
    /\ UNCHANGED <<mgrvars, http, rw>>

\* MicrodescAnnotation::parse_from_reader (microdesc.rs:89-107): takes the
\* annotations in front of the reader
MdParseAnnotations ==
    /\ md.pc = "reading"
    /\ md.pos <= Len(md.doc)
    /\ LET stop == PauseAtBody(md.doc, md.pos)
       IN  md' = [md EXCEPT
                     !.op = "annotations", !.pos = stop, !.stop = stop,
                     !.start_pos = 0, !.sha256 = Sha256(<<>>), !.ed25519_id = NoKey,
                     !.err = IF CountKw(md.doc, md.pos, stop, "last-listed") > 1
                             THEN "DuplicateToken" ELSE "none"]
    /\ UNCHANGED <<mgrvars, http, rw>>

\* Microdesc::parse_from_reader (microdesc.rs:118-207)
MdParseFromReader ==
    /\ md.pc = "reading"
    /\ md.pos <= Len(md.doc) + 1
    /\ LET stop == PauseAt(md.doc, md.pos)
           parsed == [md EXCEPT !.op = "microdesc", !.stop = stop,
                                !.pos = IF stop > md.pos THEN stop ELSE md.pos,
                                !.start_pos = 0, !.sha256 = Sha256(<<>>),
                                !.ed25519_id = NoKey]
       IN  md' =
              IF stop <= md.pos \/ md.doc[md.pos] # "onion-key"
              THEN [parsed EXCEPT !.err = "MissingToken", !.pos = md.pos]
              ELSE IF ~BodyRulesOk(md.doc, md.pos, stop)
              THEN [parsed EXCEPT !.err = "BadRules"]
              ELSE IF Ed25519Id(md.doc, md.pos, stop) = "Err"
              THEN [parsed EXCEPT !.err = "BadArgument"]
              ELSE [parsed EXCEPT
                       !.err = "none", !.start_pos = md.pos,
                       !.ed25519_id = Ed25519Id(md.doc, md.pos, stop),
                       !.sha256 = Sha256(HashedSlice(md.doc, md.pos, stop))]
    /\ UNCHANGED <<mgrvars, http, rw>>

\* the reader is dropped
MdDrop ==
    /\ md.pc = "reading"
    /\ md' = MdIdle
    /\ UNCHANGED <<mgrvars, http, rw>>

----------------------------------------------------------------------------
InitSW ==
    /\ initial \in InitWindows
    /\ window = initial
    /\ tags = <<>>
    /\ unblock = FALSE
    /\ rx = "none"
    /\ pc = "idle"
    /\ cur_tag = NoTag
    /\ ntake = 0
    /\ bad_put = FALSE
    /\ last = [op |-> "new", tag |-> NoTag, ret |-> None, sent |-> "none"]

InitPeerIdle ==
    /\ wire = <<>>
    /\ rwindow = 0
    /\ acks = <<>>
    /\ unacked = <<>>

\* ChannelMap::new(ChannelConfig::default(), Dormancy::default())
InitMap ==
    /\ channels = [k \in Keys |-> Absent]
    /\ channels_params = default_params
    /\ config = "Normal"
    /\ dormancy = "Active"
    /\ cs = Idle
    /\ leaked = FALSE
    /\ mlast = Returned("new", 0, FALSE, Absent)

\* no get_or_launch call has been made
InitMgr ==
    /\ gl = [p \in Procs |-> CallerAt("idle", 0, 0, "none")]
    /\ dials = <<>>

InitRest == InitMgr /\ InitHttp /\ InitMd /\ InitRw

InitSWAll == InitSW /\ InitPeerIdle /\ InitMap /\ InitRest

NextSW ==
    \/ \E tag \in Tags : Take(tag) /\ UNCHANGED <<peervars, mapvars, restvars>>
    \/ Poll /\ UNCHANGED <<peervars, mapvars, restvars>>
    \/ Wake /\ UNCHANGED <<peervars, mapvars, restvars>>
    \/ Retry /\ UNCHANGED <<peervars, mapvars, restvars>>
    \/ Cancel /\ UNCHANGED <<peervars, mapvars, restvars>>
    \/ \E tag \in Tags \cup {NoTag} : Put(tag) /\ UNCHANGED <<peervars, mapvars, restvars>>

vars == <<swvars, peervars, mapvars, restvars>>

\* one writer task and one SENDME handler on a shared SendWindow
SpecSW == InitSWAll /\ [][NextSW]_vars

NextTakePut ==
    \/ \E tag \in Tags : Take(tag) /\ UNCHANGED <<peervars, mapvars, restvars>>
    \/ Poll /\ UNCHANGED <<peervars, mapvars, restvars>>
    \/ Wake /\ UNCHANGED <<peervars, mapvars, restvars>>
    \/ Retry /\ UNCHANGED <<peervars, mapvars, restvars>>
    \/ \E tag \in Tags \cup {NoTag} : Put(tag) /\ UNCHANGED <<peervars, mapvars, restvars>>

\* the same without cancellation: every take call runs until it returns
SpecTakePut == InitSWAll /\ [][NextTakePut]_vars

\* the executor polls a woken task again
SpecTakePutLive ==
    /\ SpecTakePut
    /\ WF_vars(Wake /\ UNCHANGED <<peervars, mapvars, restvars>>)
    /\ WF_vars(Retry /\ UNCHANGED <<peervars, mapvars, restvars>>)

\* both ends start from the same window value, at most the maximum
InitPeer ==
    /\ InitSW
    /\ initial \in {get_increment, get_maximum}
    /\ wire = <<>>
    /\ rwindow = initial
    /\ acks = <<>>
    /\ unacked = <<>>
    /\ InitMap
    /\ InitRest

NextPeer ==
    \/ PeerTake /\ UNCHANGED <<mapvars, restvars>>
    \/ Poll /\ UNCHANGED <<peervars, mapvars, restvars>>
    \/ Wake /\ UNCHANGED <<peervars, mapvars, restvars>>
    \/ PeerRetry /\ UNCHANGED <<mapvars, restvars>>
    \/ PeerRecv /\ UNCHANGED <<mapvars, restvars>>
    \/ DeliverAck /\ UNCHANGED <<mapvars, restvars>>

\* a sender and an honest peer: cells and SENDMEs arrive in order
SpecPeer == InitPeer /\ [][NextPeer]_vars


\* the states callers hand to the map: a pending build, or an open channel
\* of some identity, in use (no duration_unused) or long unused
NewStates ==
    {Building} \cup
    {Open(i, u, ExpireDefault, default_params) : i \in Keys, u \in {NoDuration, 181}}

\* no consensus, a consensus with the default nf_ito values, and one whose
\* low values exceed the high ones
NetDirs == {<<>>, <<default_params, default_reduced>>, <<<<9500, 1500>>, <<14000, 9000>>>>}

\* new_config: None, or a ChannelConfig with one of the padding levels
ConfigChanges == {"NoChange", "None", "Reduced", "Normal"}
\* new_dormancy: None or Some(Dormancy::Dormant)
DormancyChanges == {"NoChange", "Dormant"}

InitMapAll ==
    /\ InitMap
    /\ initial = 0
    /\ InitSW
    /\ InitPeerIdle
    /\ InitRest

NextMap ==
    \/ \E k \in Keys : Get(k) /\ UNCHANGED <<swvars, peervars, restvars>>
    \/ \E k \in Keys, n \in NewStates \cup (IF leaked THEN {Poisoned} ELSE {}) :
          Replace(k, n) /\ UNCHANGED <<swvars, peervars, restvars>>
    \/ \E k \in Keys, r \in NewStates \cup {StateOf("Err", 0, NoDuration, 0, NoParams)} :
          ReplaceWithParams(k, r) /\ UNCHANGED <<swvars, peervars, restvars>>
    \/ \E k \in Keys : Remove(k) /\ UNCHANGED <<swvars, peervars, restvars>>
    \/ \E k \in Keys, n \in NewStates \cup {Absent, StateOf("Same", 0, NoDuration, 0, NoParams)} :
          ChangeStateEnter(k, n, 99) /\ UNCHANGED <<swvars, peervars, restvars>>
    \/ ChangeStateExit /\ UNCHANGED <<swvars, peervars, restvars>>
    \/ ChangeStatePanic /\ UNCHANGED <<swvars, peervars, restvars>>
    \/ ExpireChannels /\ UNCHANGED <<swvars, peervars, restvars>>
    \/ \E c \in ConfigChanges, d \in DormancyChanges, n \in NetDirs :
          ReconfigureGeneral(c, d, n) /\ UNCHANGED <<swvars, peervars, restvars>>

\* any number of callers of one ChannelMap
SpecMap == InitMapAll /\ [][NextMap]_vars

\* the states of the expiry sweep: pending builds and open channels in use
\* (no duration_unused), unused for less than, exactly, or more than the
\* maximum of 180 s, or with a longer maximum
ExpireStates ==
    {Building} \cup
    {Open(i, u, m, default_params) :
        i \in Keys, u \in {NoDuration, 170, 180, 181}, m \in {ExpireDefault, 185}}

NextExpire ==
    \/ \E k \in Keys, n \in ExpireStates : Replace(k, n) /\ UNCHANGED <<swvars, peervars, restvars>>
    \/ \E k \in Keys : Remove(k) /\ UNCHANGED <<swvars, peervars, restvars>>
    \/ \E k \in Keys : Get(k) /\ UNCHANGED <<swvars, peervars, restvars>>
    \/ ExpireChannels /\ UNCHANGED <<swvars, peervars, restvars>>

\* what func of replace_with_params returns: an error, or a state
FuncResults == NewStates \cup {StateOf("Err", 0, NoDuration, 0, NoParams)}

NextParams ==
    \/ \E k \in Keys, r \in FuncResults :
          ReplaceWithParams(k, r) /\ UNCHANGED <<swvars, peervars, restvars>>
    \/ \E k \in Keys : Remove(k) /\ UNCHANGED <<swvars, peervars, restvars>>
    \/ \E k \in Keys : Get(k) /\ UNCHANGED <<swvars, peervars, restvars>>
    \/ \E c \in ConfigChanges, d \in DormancyChanges, n \in NetDirs :
          ReconfigureGeneral(c, d, n) /\ UNCHANGED <<swvars, peervars, restvars>>

\* callers that register channels through replace_with_params only, and
\* reconfigurations
SpecParams == InitMapAll /\ [][NextParams]_vars

NextMgr ==
    \/ \E p \in Procs, k \in Keys, usable \in BOOLEAN :
          GetOrLaunchLookup(p, k, usable) /\ UNCHANGED <<swvars, peervars>>
    \/ \E p \in Procs, ok \in BOOLEAN :
          GetOrLaunchDialDone(p, ok) /\ UNCHANGED <<swvars, peervars>>
    \/ \E p \in Procs : GetOrLaunchWaitDone(p) /\ UNCHANGED <<swvars, peervars>>

\* concurrent callers of get_or_launch
SpecMgr == InitMapAll /\ [][NextMgr]_vars

NextHttp ==
    \/ \E uri \in Uris, addr_ok \in BOOLEAN :
          HttpCall(uri, addr_ok) /\ UNCHANGED <<swvars, peervars, mapvars>>
    \/ \E ok \in BOOLEAN : HttpConnectDone(ok) /\ UNCHANGED <<swvars, peervars, mapvars>>
    \/ \E ok \in BOOLEAN : HttpHandshakeDone(ok) /\ UNCHANGED <<swvars, peervars, mapvars>>
    \/ HttpNext /\ UNCHANGED <<swvars, peervars, mapvars>>

\* calls of the HTTP connector, one after the other
SpecHttp == InitMapAll /\ [][NextHttp]_vars

NextMd ==
    \/ \E doc \in Docs : MdNew(doc) /\ UNCHANGED <<swvars, peervars, mapvars>>
    \/ MdParseAnnotations /\ UNCHANGED <<swvars, peervars, mapvars>>
    \/ MdParseFromReader /\ UNCHANGED <<swvars, peervars, mapvars>>
    \/ MdDrop /\ UNCHANGED <<swvars, peervars, mapvars>>

\* readers over strings of microdescriptors and annotations
SpecMd == InitMapAll /\ [][NextMd]_vars

\* the second results of the funcs given to change_state (test::change)
Outputs == {99, 123}

NextOps ==
    \/ \E k \in Keys : Get(k) /\ UNCHANGED <<swvars, peervars, restvars>>
    \/ \E k \in Keys, n \in NewStates :
          Replace(k, n) /\ UNCHANGED <<swvars, peervars, restvars>>
    \/ \E k \in Keys : Remove(k) /\ UNCHANGED <<swvars, peervars, restvars>>
    \/ \E k \in Keys, v \in Outputs,
          n \in NewStates \cup {Absent, StateOf("Same", 0, NoDuration, 0, NoParams)} :
          ChangeStateEnter(k, n, v) /\ UNCHANGED <<swvars, peervars, restvars>>
    \/ ChangeStateExit /\ UNCHANGED <<swvars, peervars, restvars>>

\* callers of get, replace, remove and change_state whose funcs do not panic
SpecOps == InitMapAll /\ [][NextOps]_vars

\* the states registered before a reconfiguration: those of NewStates, and
\* Open states whose channel has closed since
ReconfStates == NewStates \cup {ClosedOpen(i, default_params) : i \in Keys}

\* NetDirs, and: a consensus with other valid values, one whose normal pair
\* alone has low > high, and one whose reduced pair alone has
NetDirsWide ==
    NetDirs \cup {<<<<2000, 8000>>, <<7000, 7000>>>>,
                  <<<<9500, 1500>>, <<9000, 14000>>>>,
                  <<<<1500, 9500>>, <<14000, 9000>>>>}

NextReconf ==
    \/ \E k \in Keys, n \in ReconfStates :
          Replace(k, n) /\ UNCHANGED <<swvars, peervars, restvars>>
    \/ \E k \in Keys : Remove(k) /\ UNCHANGED <<swvars, peervars, restvars>>
    \/ \E c \in ConfigChanges, d \in DormancyChanges, n \in NetDirsWide :
          ReconfigureGeneral(c, d, n) /\ UNCHANGED <<swvars, peervars, restvars>>

\* reconfigurations over a map holding live and closed channels
SpecReconf == InitMapAll /\ [][NextReconf]_vars

NextRecv ==
    \/ \E w \in RecvInitWindows : RwConstruct(w) /\ UNCHANGED <<swvars, peervars, mapvars>>
    \/ RwTake /\ UNCHANGED <<swvars, peervars, mapvars>>
    \/ RwPut /\ UNCHANGED <<swvars, peervars, mapvars>>

\* a RecvWindow whose caller takes for cells and puts for SENDMEs
SpecRecv == InitMapAll /\ [][NextRecv]_vars

\* callers that register channels, and the expiry sweeper
SpecExpire == InitMapAll /\ [][NextExpire]_vars

----------------------------------------------------------------------------
(* Claims about the send window.                                           *)

\* C1: a send window constructed with a value <= MAX keeps its window in
\* [0, MAX] as long as every put carried the expected tag or no tag, also
\* across a take that parks at zero and is woken.
C1_WindowWithinMax ==
    (initial <= get_maximum /\ ~bad_put) => (window >= 0 /\ window <= get_maximum)

\* C2: a send window constructed with a value <= MAX never holds more than
\* MAX / INCREMENT expected tags.
C2_TagsBounded ==
    initial <= get_maximum => Len(tags) <= get_maximum \div get_increment

\* C3 (as claimed): with t at the front of the FIFO, put(Some(tag)) returns
\* Some if and only if tag = t.
C3_PutSucceedsIffTagMatches ==
    [][\A tag \in Tags :
          (Put(tag) /\ tags # <<>>) => ((last'.ret # None) <=> (tag = Head(tags)))]_vars

\* C3 (amended): with t at the front of the FIFO, put(Some(tag)) returns None
\* when tag # t, and when tag = t it returns Some(window + INCREMENT) unless
\* window + INCREMENT overflows a u16, in which case it returns None too.
C3_PutSucceedsIffTagMatchesAndFits ==
    [][\A tag \in Tags :
          (Put(tag) /\ tags # <<>>) =>
             /\ (last'.ret # None) <=>
                    (tag = Head(tags) /\ window + get_increment <= U16_MAX)
             /\ last'.ret # None => last'.ret = window + get_increment]_vars

\* a put carrying the expected tag has returned Some(window) while a further
\* expected tag is still queued
C3_Witness ==
    /\ last.op = "put"
    /\ last.tag \in Tags
    /\ last.ret = window
    /\ tags # <<>>

\* C4 (as claimed): a take that parked at zero and was released by a put
\* returns INCREMENT - 1.
C4_ParkedTakeReturnsIncrementMinusOne ==
    (last.op = "retry" /\ last.ret >= 0) => last.ret = get_increment - 1

\* the take is suspended and the last call was a put that returned Some
ReleasedByPut ==
    pc \in {"released", "awaiting"} /\ last.op = "put" /\ last.ret # None

\* C4 (amended): a take suspended at zero is released by one successful put
\* (which returns Some(INCREMENT)): its receiver is then ready even if it was
\* not yet awaited, and the take (if not cancelled) runs again, does not
\* park a second time and returns the window it then finds minus one, which
\* is INCREMENT - 1 when no other put ran before it resumed.
C4_ParkedTakeReleasedByOnePut ==
    /\ [][\A tag \in Tags \cup {NoTag} :
            (Put(tag) /\ rx = "pending" /\ TagAccepted(Front, tag))
               => (last'.ret = get_increment /\ rx' = "ready" /\ ~unblock')]_vars
    /\ [][Retry => (/\ window >= get_increment
                    /\ last'.ret = window - 1
                    /\ (window = get_increment => last'.ret = get_increment - 1))]_vars
    /\ (ReleasedByPut ~> (last.op = "retry" /\ pc = "idle"))

\* a take that parked at zero has been released by a put and has returned
\* INCREMENT - 1
C4_Witness ==
    /\ last.op = "retry"
    /\ last.ret = get_increment - 1
    /\ pc = "idle"

\* C5: the assertion in take never fails: whenever take stores a sender the
\* slot was empty (one writer whose take calls may be cancelled, one SENDME
\* handler calling put).
C5_AssertNeverFails == pc # "panicked"

\* C7: after a parked take was cancelled, the next put with a valid tag adds
\* INCREMENT to the window and returns Some(new window), although the wake-up
\* fails; no credit is lost.
C7_PutAfterCancelKeepsCredit ==
    [][\A tag \in Tags \cup {NoTag} :
          (Put(tag) /\ unblock /\ rx = "none" /\ TagAccepted(Front, tag)) =>
             /\ window' = window + get_increment
             /\ last'.ret = window'
             /\ last'.sent = "err"
             /\ ~unblock']_vars

\* a put whose wake-up failed has returned Some(INCREMENT)
C7_Witness ==
    /\ last.op = "put"
    /\ last.sent = "err"
    /\ last.ret = get_increment
    /\ window = get_increment

----------------------------------------------------------------------------
(* Claims about a sender and an honest peer.                               *)

\* C6: with an honest peer the expected-tag FIFO is, in order, the tags of
\* the boundary cells sent and not yet acknowledged, and no put for a SENDME
\* of the peer returns None.
C6_FifoIsUnackedBoundaryCells ==
    /\ tags = unacked
    /\ last.op = "put" => last.ret # None

\* C6, its consequence alone: no put for a SENDME of the honest peer fails
C6_HonestPutNeverFails == last.op = "put" => last.ret # None

----------------------------------------------------------------------------
(* Claims about the channel map.                                           *)

\* C8 (as claimed): whenever no map operation is running (and none has
\* panicked), no slot holds Poisoned, whether the operations before returned
\* Ok or an error.
C8_NoPoisonedAtRest ==
    (LockFree /\ ~cs.poisoned) => \A k \in Keys : channels[k].kind # "Poisoned"

\* slot k held Poisoned before the call that is now returning
PoisonedBefore(k) ==
    IF cs.active /\ k = cs.ident
    THEN cs.old.kind = "Poisoned"
    ELSE channels[k].kind = "Poisoned"

\* the call now ending is a change_state on the occupied slot k that
\* returns an error or panics
ChangeStateFailsOn(k) ==
    /\ cs.active /\ cs.ident = k /\ cs.old.kind # "Absent"
    /\ mlast'.op = "change_state" /\ mlast'.err

\* C8 (amended): after a public map operation returns, a slot holds Poisoned
\* only if it did before the call or the call was a change_state on that
\* occupied slot that returned an error (func's state failed check_ident) or
\* whose func panicked;
\* and the slot written by replace, replace_with_params, remove or
\* change_state returning Ok does not hold Poisoned.
C8_PoisonedOnlyAfterFailedChangeState ==
    [][LockFree' =>
          /\ \A k \in Keys :
                channels'[k].kind = "Poisoned" => (PoisonedBefore(k) \/ ChangeStateFailsOn(k))
          /\ (/\ mlast'.op \in {"replace", "replace_with_params", "remove", "change_state"}
              /\ ~mlast'.err)
                => channels'[mlast'.ident].kind # "Poisoned"]_vars

\* a change_state on an occupied slot has returned Ok and left an Open state
C8_Witness ==
    /\ LockFree
    /\ mlast.op = "change_state"
    /\ ~mlast.err
    /\ mlast.val.kind = "Open"
    /\ channels[mlast.ident].kind = "Open"

\* C9 (as claimed): no caller ever observes Poisoned: as long as no func has
\* panicked, get never returns the internal error.
C9_GetNeverSeesPoisoned == (mlast.op = "get" /\ ~cs.poisoned) => ~mlast.err

\* C9 (amended): change_state is atomic with respect to the other map
\* operations: between its swap of the placeholder and its final store no
\* other operation reads or writes the map, so a get returns the value the
\* slot had before a change or the value the change left, never a change in
\* progress.  The value left is func's new state (or no entry) when
\* change_state returns Ok; when it returns the identity error (or func
\* panics) the slot is left Poisoned if it was occupied, and get then returns
\* an internal error.
C9_ChangeStateAtomic ==
    /\ [][(cs.active /\ cs'.active) =>
            /\ UNCHANGED <<channels, channels_params, config, dormancy, cs>>
            /\ mlast' # mlast => (mlast'.op = "replace" /\ mlast'.err)]_vars
    /\ [][(mlast' # mlast /\ mlast'.op = "get") =>
            /\ mlast'.err <=> (cs.poisoned \/ channels[mlast'.ident].kind = "Poisoned")
            /\ ~mlast'.err => mlast'.val = channels[mlast'.ident]]_vars
    /\ [][(cs.active /\ ~cs'.active) =>
            /\ mlast'.op = "change_state"
            /\ channels'[cs.ident] =
                   (IF ~mlast'.err THEN cs.newval
                    ELSE IF cs.old.kind = "Absent" THEN Absent ELSE Poisoned)
            /\ \A k \in Keys \ {cs.ident} : channels'[k] = channels[k]]_vars

\* a get has observed the slot a failed change_state left Poisoned
C9_Witness ==
    /\ mlast.op = "get"
    /\ mlast.err
    /\ channels[mlast.ident].kind = "Poisoned"

\* C10: every Open state stored under a key holds a channel of that
\* identity; replace, replace_with_params and change_state never insert
\* another.
C10_OpenIdentMatchesKey ==
    \A k \in Keys : channels[k].kind = "Open" => channels[k].ident = k

\* an Open state is stored and a replace_with_params of a channel of another
\* identity has been rejected
C10_Witness ==
    /\ mlast.op = "replace_with_params"
    /\ mlast.err
    /\ \E k \in Keys : channels[k].kind = "Open" /\ channels[k].ident = k

----------------------------------------------------------------------------
(* Claims about expire_channels.                                           *)

RemainingOfRetained ==
    {channels'[k].max_unused - channels'[k].unused :
        k \in {x \in Keys : channels'[x].kind = "Open" /\ channels'[x].unused # NoDuration}}

\* C12: expire_channels returns the minimum of 180 s and the remaining time
\* (max_unused_duration - duration_unused) of the Open entries it retains
\* that have a known duration_unused; removed entries do not contribute.
C12_ReturnsMinRemaining ==
    [][ExpireChannels =>
          /\ mlast'.val.unused <= ExpireDefault
          /\ \A r \in RemainingOfRetained : mlast'.val.unused <= r
          /\ mlast'.val.unused \in RemainingOfRetained \cup {ExpireDefault}]_vars

\* a sweep has returned the 10 s remaining of an entry it retained (unused
\* 170 s of 180 s), the other slot being empty
C12_Witness ==
    /\ mlast.op = "expire_channels"
    /\ mlast.val.unused = 10
    /\ \E k \in Keys : channels[k].kind = "Absent"
    /\ \E k \in Keys : channels[k].kind = "Open" /\ channels[k].unused = 170

----------------------------------------------------------------------------
(* Claims about reconfigure_general and the channels' parameters.          *)

\* C13: reconfigure_general calls reparameterize exactly once on each Open
\* channel if and only if the newly computed padding parameters differ from
\* the map's current ones; otherwise no channel gets an update; Building
\* entries never get one.
C13_FansOutOnceIffParamsChange ==
    [][\A c \in ConfigChanges, d \in DormancyChanges, n \in NetDirs :
          (ReconfigureGeneral(c, d, n) /\ ~cs.poisoned) =>
             \A k \in Keys :
                /\ mlast'.calls[k] =
                      (IF channels[k].kind = "Open" /\ channels_params' # channels_params
                       THEN 1 ELSE 0)
                /\ channels'[k] =
                      (IF mlast'.calls[k] = 1
                       THEN [channels[k] EXCEPT !.params = channels_params']
                       ELSE channels[k])]_vars

\* a reconfiguration has updated an Open channel once and passed over a
\* Building entry
C13_Witness ==
    /\ mlast.op = "reconfigure_general"
    /\ \E k \in Keys : channels[k].kind = "Open" /\ mlast.calls[k] = 1
    /\ \E k \in Keys : channels[k].kind = "Building" /\ mlast.calls[k] = 0

\* C14: replace_with_params hands func the parameters in force when the
\* state is inserted, so every Open channel registered through it runs with
\* the map's current parameters at all times: it was built from them or got
\* every update since.
C14_RegisteredChannelsHaveCurrentParams ==
    \A k \in Keys : channels[k].kind = "Open" => channels[k].params = channels_params

\* a channel has been registered after a reconfiguration changed the
\* parameters, and was built from the changed ones
C14_Witness ==
    /\ mlast.op = "replace_with_params"
    /\ ~mlast.err
    /\ channels_params # default_params
    /\ channels[mlast.ident].kind = "Open"
    /\ channels[mlast.ident].params = channels_params

----------------------------------------------------------------------------
(* Claims about get_or_launch.                                             *)

\* the dials in flight for identity k
InFlight(k) ==
    {h \in 1..Len(dials) : dials[h].ident = k /\ dials[h].outcome = "inflight"}

\* C15: for every identity at most one dial is in flight at a time; the
\* Building entry is that of the dial in flight, later callers await its
\* pending handle instead of dialling, and every caller that took part in a
\* dial (the one that dialled and those that awaited it) gets its outcome.
C15_AtMostOneDialInFlight ==
    /\ \A k \in Keys :
          /\ Cardinality(InFlight(k)) <= 1
          /\ channels[k].kind = "Building" <=> InFlight(k) = {channels[k].pending}
    /\ \A p \in Procs :
          /\ gl[p].pc \in {"waiting", "dialing"} => gl[p].handle \in 1..Len(dials)
          /\ gl[p].pc = "dialing" => gl[p].handle \in InFlight(gl[p].ident)
          /\ (gl[p].pc = "idle" /\ gl[p].handle # 0)
                => gl[p].result = dials[gl[p].handle].outcome

\* three concurrent calls for one identity ended with one dial started, and
\* all three callers got its outcome
C15_Witness ==
    /\ Len(dials) = 1
    /\ \A p \in Procs :
          gl[p].pc = "idle" /\ gl[p].handle = 1 /\ gl[p].result = dials[1].outcome

----------------------------------------------------------------------------
(* Claims about the HTTP connector.                                        *)

C17_UriToHostPortTls ==
    http.pc # "idle" =>
       LET uri == http.uri
           r == http.parsed
       IN  /\ uri.scheme \notin {"http", "https"} => r.err = "UnsupportedUriScheme"
           /\ (uri.scheme \in {"http", "https"} /\ uri.host = "none")
                 => r.err = "MissingHostname"
           /\ (uri.scheme \in {"http", "https"} /\ uri.host # "none") =>
                 /\ r.err = "none"
                 /\ r.host = uri.host
                 /\ r.use_tls = "Tls" <=> uri.scheme = "https"
                 /\ uri.port # NoPort => r.port = uri.port
                 /\ (uri.port = NoPort /\ uri.scheme = "http") => r.port = 80
                 /\ (uri.port = NoPort /\ uri.scheme = "https") => r.port = 443
           /\ r.err # "none" =>
                 (http.pc = "done" /\ http.result = r.err /\ http.events = <<>>)

\* a call with a URI that has neither a supported scheme nor a host has
\* returned UnsupportedUriScheme
C17_Witness ==
    /\ http.pc = "done"
    /\ http.uri.scheme = "ftp"
    /\ http.uri.host = "none"
    /\ http.result = "UnsupportedUriScheme"

----------------------------------------------------------------------------
(* Claims about the microdescriptor parser.                                *)

\* C18: the sha256 of a parsed microdescriptor is the SHA-256 of the input
\* from the offset of its onion-key to the end of the slice that belongs to
\* it: with several descriptors in the reader the hashed range of the first
\* ends where the second onion-key begins.
C18_Sha256CoversOwnSlice ==
    (md.op = "microdesc" /\ md.err = "none") =>
       md.sha256 = Sha256(HashedToPause(md.doc, md.start_pos, md.stop))

----------------------------------------------------------------------------
(* Claims about change_state and a func that breaks the identity rule.     *)

\* the change_state now returning was given, by func, Some(state) with an
\* Open state whose channel identity differs from the key
ReturnsWithMismatch ==
    /\ cs.active /\ ~cs'.active /\ ~cs'.poisoned
    /\ cs.newval.kind = "Open" /\ cs.newval.ident # cs.ident

\* the step is a get that returns
GetReturns == mlast' # mlast /\ mlast'.op = "get"

\* C19: when change_state is called on an occupied slot and func returns
\* Some(state) whose channel identity differs from the key, change_state
\* returns an internal error and leaves the slot Poisoned; every get of a
\* Poisoned slot returns an internal error; and the slot stays Poisoned until
\* a replace, replace_with_params, remove or change_state on that identity
\* overwrites or removes it.
C19_OccupiedMismatchPoisons ==
    /\ [][(ReturnsWithMismatch /\ cs.old.kind # "Absent") =>
            /\ mlast'.op = "change_state" /\ mlast'.ident = cs.ident /\ mlast'.err
            /\ channels'[cs.ident] = Poisoned]_vars
    /\ [][(GetReturns /\ channels[mlast'.ident].kind = "Poisoned") =>
            /\ mlast'.err
            /\ channels'[mlast'.ident].kind = "Poisoned"]_vars
    /\ [][\A k \in Keys :
            (LockFree /\ channels[k].kind = "Poisoned" /\ channels'[k].kind # "Poisoned") =>
               /\ mlast'.op \in {"replace", "replace_with_params", "remove"}
               /\ mlast'.ident = k /\ ~mlast'.err]_vars
    /\ [][\A k \in Keys :
            (cs.active /\ cs.old.kind = "Poisoned" /\ k = cs.ident
               /\ channels'[k].kind # "Poisoned") =>
               mlast'.op = "change_state" /\ mlast'.ident = k /\ ~mlast'.err]_vars

\* a change_state on a slot holding an Open channel has returned the error
\* for a state of another identity, and the slot holds Poisoned
C19_Witness ==
    /\ LockFree /\ ~cs.poisoned
    /\ mlast.op = "change_state" /\ mlast.err
    /\ mlast.val.kind = "Open" /\ mlast.val.ident = mlast.ident
    /\ channels[mlast.ident] = Poisoned

\* C20: when change_state is called on a vacant slot and func returns
\* Some(state) whose channel identity differs from the key, change_state
\* returns an internal error and the map is as it was before the call:
\* nothing is inserted, and a get of a vacant identity returns Ok(None).
C20_VacantMismatchLeavesMap ==
    /\ [][(~cs.active /\ cs'.active /\ cs'.old.kind = "Absent") =>
            channels' = channels]_vars
    /\ [][(ReturnsWithMismatch /\ cs.old.kind = "Absent") =>
            /\ mlast'.op = "change_state" /\ mlast'.ident = cs.ident /\ mlast'.err
            /\ channels' = channels
            /\ channels'[cs.ident] = Absent]_vars
    /\ [][(GetReturns /\ ~cs.poisoned /\ channels[mlast'.ident].kind = "Absent") =>
            /\ ~mlast'.err /\ mlast'.val = Absent
            /\ channels' = channels]_vars

\* a change_state on a vacant slot has returned the error for a state of
\* another identity, and the slot is still vacant
C20_Witness ==
    /\ LockFree /\ ~cs.poisoned
    /\ mlast.op = "change_state" /\ mlast.err
    /\ mlast.val = Absent
    /\ channels[mlast.ident] = Absent

----------------------------------------------------------------------------
(* Claims about the plain map operations.                                  *)

\* the slots of the identities other than k are as they were
OthersUnchanged(k) == \A j \in Keys \ {k} : channels'[j] = channels[j]

\* C21: change_state(ident, func) invokes func once, with the slot's prior
\* value (None if vacant); when func returns a state that passes the identity
\* check the slot afterwards holds exactly that state, when func returns None
\* the slot afterwards is absent; in both cases func's second result is
\* returned to the caller, and every other identity's slot is unchanged.
C21_ChangeStateAppliesFunc ==
    /\ [][(~cs.active /\ cs'.active) =>
            /\ cs'.old = channels[cs'.ident]
            /\ OthersUnchanged(cs'.ident)]_vars
    /\ [][(cs.active /\ cs'.active) => (cs' = cs /\ channels' = channels)]_vars
    /\ [][(/\ cs.active /\ ~cs'.active /\ ~cs'.poisoned
           /\ (cs.newval.kind = "Absent" \/ check_ident(cs.newval, cs.ident) = "Ok")) =>
            /\ channels'[cs.ident] = cs.newval
            /\ mlast'.op = "change_state" /\ mlast'.ident = cs.ident /\ ~mlast'.err
            /\ mlast'.val = cs.old /\ mlast'.out = cs.output
            /\ OthersUnchanged(cs.ident)]_vars

\* a change_state whose func returned (None, 123) has removed an Open state
\* and returned 123 with the old state, next to another identity's Open state
C21_Witness ==
    /\ LockFree
    /\ mlast.op = "change_state" /\ ~mlast.err
    /\ mlast.out = 123 /\ mlast.val.kind = "Open"
    /\ channels[mlast.ident] = Absent
    /\ \E j \in Keys \ {mlast.ident} : channels[j].kind = "Open"

\* C22: replace(ident, new) returns the state stored under ident before
\* (None if absent) and leaves new there; remove(ident) returns the stored
\* state (None if absent) and leaves nothing there; get(ident) returns the
\* stored state, None for an identity with nothing stored (never inserted,
\* or removed); each leaves the other identities as they were.
C22_ReplaceGetRemove ==
    /\ [][\A k \in Keys, n \in NewStates :
            (Replace(k, n) /\ check_ident(n, k) = "Ok") =>
               /\ mlast' = Returned("replace", k, FALSE, channels[k])
               /\ channels'[k] = n
               /\ OthersUnchanged(k)]_vars
    /\ [][\A k \in Keys :
            Remove(k) =>
               /\ mlast' = Returned("remove", k, FALSE, channels[k])
               /\ channels'[k] = Absent
               /\ OthersUnchanged(k)]_vars
    /\ [][\A k \in Keys :
            (Get(k) /\ channels[k].kind # "Poisoned") =>
               /\ mlast' = Returned("get", k, FALSE, channels[k])
               /\ channels' = channels]_vars

\* a replace has returned the Open state stored before and left a pending
\* build in its place, next to another identity's Open state
C22_Witness ==
    /\ mlast.op = "replace" /\ ~mlast.err
    /\ mlast.val.kind = "Open"
    /\ channels[mlast.ident] = Building
    /\ \E j \in Keys \ {mlast.ident} : channels[j].kind = "Open"

----------------------------------------------------------------------------
(* Claims about the fan-out and the padding parameters it carries.         *)

\* C23: during the fan-out of reconfigure_general a reparameterize call that
\* fails on one Open transport is ignored: every other Open transport still
\* receives the update, the map's ChannelsParams holds the new value, and
\* reconfigure_general returns Ok.
C23_FailedReparameterizeIgnored ==
    [][\A c \in ConfigChanges, d \in DormancyChanges, n \in NetDirsWide :
          (/\ ReconfigureGeneral(c, d, n)
           /\ channels_params' # channels_params
           /\ \E k \in Keys : channels[k].kind = "Open" /\ channels[k].closed) =>
             /\ mlast'.op = "reconfigure_general" /\ ~mlast'.err
             /\ channels_params' = padding_parameters(config', n)
             /\ \A k \in Keys :
                   (channels[k].kind = "Open" /\ ~channels[k].closed) =>
                      /\ mlast'.calls[k] = 1
                      /\ channels'[k] = [channels[k] EXCEPT !.params = channels_params']]_vars

\* a reconfiguration has called reparameterize on a closed channel, which
\* took nothing, and on a live one, which runs with the new parameters
C23_Witness ==
    /\ mlast.op = "reconfigure_general" /\ ~mlast.err
    /\ \E k \in Keys :
          /\ channels[k].kind = "Open" /\ channels[k].closed
          /\ mlast.calls[k] = 1 /\ channels[k].params # channels_params
    /\ \E k \in Keys :
          /\ channels[k].kind = "Open" /\ ~channels[k].closed
          /\ mlast.calls[k] = 1 /\ channels[k].params = channels_params

\* the named default of a padding level
NamedDefault(level) == IF level = "Reduced" THEN default_reduced ELSE default_params

\* the nf_ito pair of a padding level in a consensus
LevelPair(level, netdir) == netdir[IF level = "Reduced" THEN 2 ELSE 1]

\* the step is a reconfigure_general with a consensus at hand which leaves
\* the level Reduced or Normal in force
ReconfiguresWithConsensus(c, d, n) ==
    /\ ReconfigureGeneral(c, d, n)
    /\ ~cs.poisoned
    /\ n # <<>>
    /\ config' \in {"Reduced", "Normal"}

\* C24: with the consensus available and the level Reduced or Normal, the
\* resolver selects the nf_ito pair of that level; if the pair has low > high
\* the result is the named default for that same level: default_reduced for
\* Reduced, default for Normal.
C24_FallsBackToLevelDefault ==
    [][\A c \in ConfigChanges, d \in DormancyChanges, n \in NetDirsWide :
          ReconfiguresWithConsensus(c, d, n) =>
             channels_params' =
                (IF LevelPair(config', n)[1] > LevelPair(config', n)[2]
                 THEN NamedDefault(config')
                 ELSE LevelPair(config', n))]_vars

\* the last call was a reconfigure_general that returned Ok
Reconfigured == mlast.op = "reconfigure_general" /\ ~mlast.err

\* the Open channels that took the update of the last reconfigure_general
Updated == {k \in Keys : mlast.calls[k] = 1 /\ channels[k].kind = "Open" /\ ~channels[k].closed}

\* C25: with the consensus available, the level Reduced or Normal and the
\* selected nf_ito pair having low <= high, the resolver returns exactly
\* low_ms = that low and high_ms = that high, and reconfigure_general stores
\* and fans out an update carrying exactly those values.
C25_ConsensusPairApplied ==
    (/\ Reconfigured
     /\ mlast.netdir # <<>>
     /\ config \in {"Reduced", "Normal"}
     /\ LevelPair(config, mlast.netdir)[1] <= LevelPair(config, mlast.netdir)[2]) =>
       /\ padding_parameters(config, mlast.netdir) = LevelPair(config, mlast.netdir)
       /\ channels_params = LevelPair(config, mlast.netdir)
       /\ \A k \in Updated : channels[k].params = LevelPair(config, mlast.netdir)

\* a reconfiguration at level Reduced has sent the consensus' reduced pair
\* 7000/7000 to an Open channel
C25_Witness ==
    /\ Reconfigured
    /\ config = "Reduced"
    /\ mlast.netdir = <<<<2000, 8000>>, <<7000, 7000>>>>
    /\ channels_params = <<7000, 7000>>
    /\ \E k \in Updated : channels[k].params = <<7000, 7000>>

\* C26: with the consensus absent the resolver returns the named default
\* for the configured level, default for Normal and default_reduced for
\* Reduced, and that is what reconfigure_general stores and fans out.
C26_NoConsensusNamedDefault ==
    (Reconfigured /\ mlast.netdir = <<>> /\ config \in {"Reduced", "Normal"}) =>
       /\ padding_parameters(config, mlast.netdir) = NamedDefault(config)
       /\ channels_params = NamedDefault(config)
       /\ \A k \in Updated : channels[k].params = NamedDefault(config)

\* a reconfiguration without consensus at level Reduced has sent
\* default_reduced to an Open channel
C26_Witness ==
    /\ Reconfigured
    /\ mlast.netdir = <<>>
    /\ config = "Reduced"
    /\ channels_params = default_reduced
    /\ \E k \in Updated : channels[k].params = default_reduced

\* C27: with PaddingLevel::None the resolver returns all_zeroes for every
\* consensus input, available or not.
C27_NoneIsAllZeroes ==
    /\ \A n \in NetDirsWide : padding_parameters("None", n) = all_zeroes
    /\ (Reconfigured /\ config = "None") =>
          /\ channels_params = all_zeroes
          /\ \A k \in Updated : channels[k].params = all_zeroes

\* a reconfiguration at level None with a consensus at hand has sent
\* all_zeroes to an Open channel
C27_Witness ==
    /\ Reconfigured
    /\ config = "None"
    /\ mlast.netdir # <<>>
    /\ channels_params = all_zeroes
    /\ \E k \in Updated : channels[k].params = all_zeroes

\* C28: every PaddingParameters value that reconfigure_general stores in the
\* map's ChannelsParams or sends to a transport has low_ms <= high_ms, for
\* every level and every consensus input.
C28_AppliedLowAtMostHigh ==
    /\ channels_params[1] <= channels_params[2]
    /\ \A k \in Keys :
          channels[k].kind = "Open" => channels[k].params[1] <= channels[k].params[2]
    /\ \A l \in {"None", "Reduced", "Normal"}, n \in NetDirsWide :
          padding_parameters(l, n)[1] <= padding_parameters(l, n)[2]

\* a reconfiguration at level Normal was given a consensus whose normal pair
\* has low > high, and sent an update to an Open channel
C28_Witness ==
    /\ Reconfigured
    /\ config = "Normal"
    /\ mlast.netdir # <<>>
    /\ mlast.netdir[1][1] > mlast.netdir[1][2]
    /\ Updated # {}

----------------------------------------------------------------------------
(* Claims about put and the tag it carries.                                *)

\* C29: a put received while the expected-tag FIFO is empty returns None
\* whatever tag it carries, no tag included, and adds no credit to the
\* window.
C29_UnexpectedPutRejected ==
    [][\A tag \in Tags \cup {NoTag} :
          (Put(tag) /\ tags = <<>>) =>
             /\ last'.ret = None
             /\ window' = window
             /\ tags' = <<>>]_vars

\* a put without a tag has returned None on a window from which nothing was
\* ever taken
C29_Witness ==
    /\ last.op = "put" /\ last.tag = NoTag /\ last.ret = None
    /\ ntake = 0 /\ tags = <<>> /\ window = initial

\* C30 (as claimed): a put carrying no tag while an expected tag exists is
\* accepted: it removes exactly the front expected tag, adds INCREMENT to the
\* window and returns Some(old window + INCREMENT).
C30_UntaggedPutAccepted ==
    [][(Put(NoTag) /\ tags # <<>>) =>
          /\ tags' = Tail(tags)
          /\ window' = window + get_increment
          /\ last'.ret = window + get_increment]_vars

\* C30 (amended): a put carrying no tag while an expected tag exists removes
\* exactly the front expected tag; it adds INCREMENT to the window and
\* returns Some(old window + INCREMENT) unless that sum overflows a u16, in
\* which case it returns None and leaves the window as it is.
C30_UntaggedPutAcceptedIfFits ==
    [][(Put(NoTag) /\ tags # <<>>) =>
          /\ tags' = Tail(tags)
          /\ IF window + get_increment <= U16_MAX
             THEN window' = window + get_increment /\ last'.ret = window + get_increment
             ELSE window' = window /\ last'.ret = None]_vars

\* a put without a tag has been accepted and has returned the new window
C30_Witness ==
    /\ last.op = "put" /\ last.tag = NoTag
    /\ last.ret # None /\ last.ret = window
    /\ ntake > 0

----------------------------------------------------------------------------
(* Claims about the receive window.                                        *)

\* C31: receive-window take, for every window value w: if w = 0 it returns
\* None and leaves the window at 0; otherwise it sets the window to w - 1 and
\* returns Some(b), b true iff w % INCREMENT = 0 and w # MAX.
C31_RecvTake ==
    [][RwTake =>
          IF rw.window = 0
          THEN rw'.ret = None /\ rw'.window = 0
          ELSE /\ rw'.window = rw.window - 1
               /\ rw'.ret = (IF rw.window % get_increment = 0 /\ rw.window # get_maximum
                             THEN 1 ELSE 0)]_vars

\* a take on an empty receive window has returned None after a take at an
\* increment boundary returned Some(true)
C31_Witness ==
    /\ rw.op = "take" /\ rw.ret = None /\ rw.window = 0
    /\ rw.owed > 0 /\ rw.initial = get_maximum

\* C35: for a receive window constructed with a value <= MAX, in any
\* sequence of take and put where put is called at most once after each take
\* that returned Some(true), the window stays within [0, MAX] and put never
\* overflows.
C35_RecvWindowWithinMax ==
    (rw.initial <= get_maximum /\ rw.stray = 0) =>
       /\ rw.window >= 0 /\ rw.window <= get_maximum
       /\ ~rw.panicked
       /\ rw.window + rw.owed * get_increment <= get_maximum

\* two SENDMEs were owed at once and the put for one of them has returned
C35_Witness ==
    /\ rw.initial = get_maximum /\ rw.stray = 0
    /\ rw.op = "put" /\ rw.ret = rw.window
    /\ rw.owed = 1

----------------------------------------------------------------------------
(* Claims about the identity of a microdescriptor.                         *)

\* C32: when a microdescriptor body contains an item `id ed25519 <base64>`,
\* the parsed ed25519 identity is the key decoded from that item's value
\* argument (the argument after the type name); id items of another type are
\* ignored, and when no ed25519 item is present the identity is absent.
C32_Ed25519IdFromValueArgument ==
    (md.op = "microdesc" /\ md.err = "none") =>
       LET tok == IdTokByType(md.doc, md.start_pos, md.stop)
       IN  md.ed25519_id = (IF tok = 0 THEN NoKey ELSE get_arg(md.doc[tok], 1))

----------------------------------------------------------------------------
(* Claims about the tags take records and about a put that fails.          *)

\* the step is a pass of take's loop under the lock
TakePass == (\E tag \in Tags : Take(tag)) \/ Retry

\* C33: every cell sent through a send window (every take call that
\* returns) records its tag at most once, and exactly when the window value
\* it decrements is an increment boundary; a pass of take that parks at zero
\* records nothing, so a take that parked and was woken does not record its
\* tag a second time.
C33_TagRecordedOncePerCell ==
    [][TakePass =>
          IF last'.ret >= 0
          THEN tags' = (IF IsBoundary(window) THEN Append(tags, last'.tag) ELSE tags)
          ELSE tags' = tags]_vars

\* C34: a put that returns None (wrong tag, no expected tag, or arithmetic
\* overflow) leaves the window value unchanged and does not wake or discard
\* a parked take: the unblock sender stays stored and the parked take stays
\* suspended.
C34_FailedPutLeavesParkedTake ==
    [][\A tag \in Tags \cup {NoTag} :
          (Put(tag) /\ last'.ret = None) =>
             /\ window' = window
             /\ unblock' = unblock
             /\ rx' = rx
             /\ pc' = pc]_vars

\* a put has returned None while a take is parked: the sender is stored and
\* the receiver still pending
C34_Witness ==
    /\ last.op = "put" /\ last.ret = None
    /\ pc \in {"released", "awaiting"}
    /\ unblock /\ rx = "pending"
    /\ window = 0

----------------------------------------------------------------------------
(* Claims about a replace_with_params that fails.                          *)

\* C36: when replace_with_params fails, func returning an error or an Open
\* state whose channel identity differs from the key, it returns the error
\* and the map is unchanged: the state stored under the identity, all other
\* entries and the ChannelsParams are exactly as before the call.
C36_FailedReplaceWithParamsLeavesMap ==
    [][\A k \in Keys, res \in FuncResults :
          (/\ ReplaceWithParams(k, res)
           /\ res.kind = "Err" \/ (res.kind = "Open" /\ res.ident # k)) =>
             /\ mlast'.op = "replace_with_params" /\ mlast'.ident = k /\ mlast'.err
             /\ channels' = channels
             /\ channels_params' = channels_params
             /\ UNCHANGED <<config, dormancy>>]_vars

\* a replace_with_params has failed on an identity that holds an Open state,
\* after a reconfiguration changed the parameters, next to a pending build
C36_Witness ==
    /\ mlast.op = "replace_with_params" /\ mlast.err
    /\ channels[mlast.ident].kind = "Open"
    /\ channels_params # default_params
    /\ \E j \in Keys \ {mlast.ident} : channels[j] = Building

====
